---- MODULE Spec2Model ----
(***************************************************************************)
(* devodev/inmemdb: an in-memory key-value store with named transactions.  *)
(*                                                                         *)
(* The model follows src/database.go (Database) and src/unnamed/part_000   *)
(* (Transaction).  Every exported method is a call of a thread; a call is  *)
(* split at its lock acquisitions, so that the interleavings the two       *)
(* mutexes (d.mu, d.tMu) allow are the interleavings of the model.         *)
(*                                                                         *)
(* Pointers are modelled by what the code does with them:                  *)
(*   - an *Entry is a record [addr, Value]; NewEntry allocates an address  *)
(*     no live pointer holds (Go's collector reuses only unreachable       *)
(*     memory), and an Entry is never written after its allocation;        *)
(*   - a *string is a sequence: <<>> is nil, <<x>> points to x.  oldValue  *)
(*     is &entry.Value, a pointer INTO the entry, so it is <<entry>>, and  *)
(*     comparing two of them compares addresses;                           *)
(*   - a *Transaction is an object number; 0 is nil.                       *)
(***************************************************************************)
EXTENDS Integers, FiniteSets, Sequences, TLC

(* ------------------------------ bounds --------------------------------- *)
NumKeys == 2
NumValues == 2
NumXids == 2
NumProcs == 2
\* The terminal calls counted per transaction (history).
MaxEnded == 2

KeyNames == <<"a", "b", "c", "d">>
ValueNames == <<"foo", "bar", "baz", "qux">>
XidNames == <<"abc", "xyz", "def", "ghi">>

Keys == {KeyNames[i] : i \in 1..NumKeys}
Values == {ValueNames[i] : i \in 1..NumValues}
Xids == {XidNames[i] : i \in 1..NumXids}
Procs == 1..NumProcs

\* Transaction objects: one per active identifier, and one more that a thread
\* may still hold after its identifier was removed from the registry.
Detached == NumXids + 1
TxnObjs == 1..Detached
\* Entry addresses of one key: the store's entry, every overlay's oldValue,
\* and one more.
Addrs == 1..(NumXids + 3)

(* ------------------------------ errors --------------------------------- *)
Nil == "nil"
ErrKeyEmpty == "key is empty"
ErrKeyNotFound == "key not found"
ErrTransactionExists == "transaction already exists"
ErrTransactionNotFound == "transaction not found"
ErrTransactionIDEmpty == "transaction ID is empty"
ErrTransactionDiscrepancy == "transaction dicscrepancy"

stateAdded == "stateAdded"
stateUpdated == "stateUpdated"
stateDeleted == "stateDeleted"

(* ------------------------------- state --------------------------------- *)
VARIABLES
    data,                \* Database.data: key -> *Entry (a Go map: partial)
    activeTransactions,  \* Database.activeTransactions: xid -> *Transaction
    txns,                \* heap of Transaction objects: obj -> uncommitedData
    mu,                  \* Database.mu (RWMutex): [w: holder or 0, r: readers]
    tMu,                 \* Database.tMu: the holder, 0 when free
    th,                  \* the threads: position in a call, arguments, locals
    hist,                \* history (not program state), per Transaction object:
                         \* mutated: the keys written in the store since the
                         \*   transaction was created, by anyone else;
                         \* rival: the keys that another transaction, which had
                         \*   staged them from the same committed state, has
                         \*   committed since;
                         \* ended: the terminal calls (commit, rollback) that
                         \*   succeeded on the transaction, up to MaxEnded
    scope                \* the callers: the threads that call, the keys, values
                         \* and identifiers they call with, and whether the
                         \* history is recorded (fixed)

vars == <<data, activeTransactions, txns, mu, tMu, th, hist, scope>>

\* The arguments the calls are made with.  The empty identifier is an input
\* of every transactional call, the empty key of the non-transactional ones;
\* the transactional calls get the empty key from the callers that have it
\* among their keys.
KeyInputs == scope.keys \cup {""}
TxnKeyInputs == scope.keys
ValueInputs == scope.values
XidInputs == scope.xids \cup {""}

(* ------------------------------ Go maps -------------------------------- *)
EmptyMap == [x \in {} |-> x]
MapPut(m, k, v) == [x \in (DOMAIN m) \cup {k} |-> IF x = k THEN v ELSE m[x]]
MapDelete(m, k) == [x \in (DOMAIN m) \ {k} |-> m[x]]

(* ------------------------------ the heap ------------------------------- *)
NewEntry(a, value) == [addr |-> a, Value |-> value]

\* The addresses some live pointer to an entry of key holds: the store's
\* entry and the entries the overlays' oldValue pointers keep alive.  Only
\* pointers to entries of one key are ever compared (data[key] with the
\* oldValue of key's record), so an address is a number within its key.
OldAddrs(u) == {u.oldValue[i].addr : i \in DOMAIN u.oldValue}
UsedAddrs(d, t, key) ==
    (IF key \in DOMAIN d THEN {d[key].addr} ELSE {})
    \cup UNION {IF key \in DOMAIN t[o] THEN OldAddrs(t[o][key]) ELSE {} :
                  o \in TxnObjs}

\* NewEntry's allocation: an address no live pointer holds.
Alloc(d, t, key) == CHOOSE a \in Addrs : a \notin UsedAddrs(d, t, key)

\* The Transaction objects some pointer reaches: the registry's, and the one
\* a thread got from getTransaction.
Live(at, thr) ==
    {at[x] : x \in DOMAIN at} \cup ({thr[p].transaction : p \in Procs} \ {0})

\* NewTransaction's allocation: an object no pointer reaches.
AllocTxn(at, thr) == CHOOSE o \in TxnObjs : o \notin Live(at, thr)

\* The program tests pointers for equality only (and never two *Transaction),
\* so its behaviour is the same under any renaming of the Transaction objects
\* and of the Entry addresses.  Each state is kept in one naming:
\*   - the Transaction of the i-th identifier is object i, and a Transaction
\*     that a thread still holds after its identifier was removed is Detached;
\*   - the live entries of a key are numbered in the order of their first
\*     holder, the store first and then the Transaction objects.
\* What no pointer reaches is garbage and is dropped.
ObjOf(xid) == CHOOSE i \in 1..NumXids : XidNames[i] = xid

ObjName(at, o) ==
    IF \E x \in DOMAIN at : at[x] = o
    THEN ObjOf(CHOOSE x \in DOMAIN at : at[x] = o)
    ELSE Detached

RenameObjs(t, at, thr, none) ==
    [n \in TxnObjs |->
        IF \E o \in Live(at, thr) : ObjName(at, o) = n
        THEN t[CHOOSE o \in Live(at, thr) : ObjName(at, o) = n]
        ELSE none]

RenameTxns(t, at, thr) == RenameObjs(t, at, thr, EmptyMap)

NoHistory == [mutated |-> {}, rival |-> {}, ended |-> 0]

Holder(d, t, key, a) ==
    IF key \in DOMAIN d /\ d[key].addr = a
    THEN 0
    ELSE CHOOSE o \in TxnObjs :
            /\ key \in DOMAIN t[o] /\ a \in OldAddrs(t[o][key])
            /\ \A q \in TxnObjs :
                  (key \in DOMAIN t[q] /\ a \in OldAddrs(t[q][key])) => o <= q

Renamed(d, t, key, a) ==
    1 + Cardinality({b \in UsedAddrs(d, t, key) :
                        Holder(d, t, key, b) < Holder(d, t, key, a)})

RenameEntry(d, t, key, e) == [e EXCEPT !.addr = Renamed(d, t, key, @)]

RenameAddrs(d, t) ==
    [o \in TxnObjs |->
        [key \in DOMAIN t[o] |->
            [t[o][key] EXCEPT
                !.oldValue = [i \in DOMAIN @ |-> RenameEntry(d, t, key, @[i])]]]]

\* The state after a step that left the store d, the Transaction objects t,
\* the registry at and the threads thr.
HeapH(d, t, at, thr, h) ==
    /\ hist' = IF scope.history
               THEN RenameObjs(h, at, thr, NoHistory)
               ELSE hist
    /\ data' = [key \in DOMAIN d |->
                  RenameEntry(d, RenameTxns(t, at, thr), key, d[key])]
    /\ txns' = RenameAddrs(d, RenameTxns(t, at, thr))
    /\ activeTransactions' = [x \in DOMAIN at |-> ObjOf(x)]
    /\ th' = [p \in Procs |->
                [thr[p] EXCEPT !.transaction =
                    IF @ = 0 THEN 0 ELSE ObjName(at, @)]]

Heap(d, t, at, thr) == HeapH(d, t, at, thr, hist)

\* The history after the store's entries of the keys ks were written by
\* someone other than the Transaction object self (0: by no transaction).
Mutated(h, ks, self) ==
    [o \in TxnObjs |->
        IF o = self THEN h[o] ELSE [h[o] EXCEPT !.mutated = @ \cup ks]]

\* The keys of the overlay u that the overlay v holds too, staged from the
\* same committed state: the same entry (or none) observed by both, and the
\* key not written since either transaction was created.
SameBaseline(u, v, hu, hv) ==
    {key \in (DOMAIN u) \cap (DOMAIN v) :
        /\ u[key].oldValue = v[key].oldValue
        /\ key \notin hu.mutated \cup hv.mutated}

\* The history after a terminal call succeeded on the Transaction object self.
Ended(h, self) ==
    [h EXCEPT ![self].ended = IF @ < MaxEnded THEN @ + 1 ELSE @]

\* The history after the Transaction object self committed its overlay.
Committed(h, t, self) ==
    [o \in TxnObjs |->
        IF o = self
        THEN Ended(h, self)[o]
        ELSE [h[o] EXCEPT !.mutated = @ \cup DOMAIN t[self],
                          !.rival = @ \cup SameBaseline(t[self], t[o],
                                                       h[self], h[o])]]

(* ------------------------------ threads -------------------------------- *)
Idle == [pc |-> "idle", op |-> "", key |-> "", value |-> "", xid |-> "",
         transaction |-> 0, err |-> Nil, ret |-> ""]

Invoke(op, key, value, xid, pc) ==
    [Idle EXCEPT !.pc = pc, !.op = op, !.key = key, !.value = value, !.xid = xid]

\* A call returns (err, ret) to its caller.
Returned(t, err, ret) ==
    [t EXCEPT !.pc = "ret", !.err = err, !.ret = ret, !.transaction = 0]

Return(p, err, ret) == [th EXCEPT ![p] = Returned(@, err, ret)]
Goto(p, pc) == [th EXCEPT ![p].pc = pc]

MuFree == mu.w = 0 /\ mu.r = {}
MuUnlocked == [w |-> 0, r |-> {}]
\* release(): d.tMu.Unlock when getTransaction took the lock, else a no-op.
Release(p) == IF tMu = p THEN 0 ELSE tMu

InitState ==
    /\ data = EmptyMap
    /\ activeTransactions = EmptyMap
    /\ txns = [o \in TxnObjs |-> EmptyMap]
    /\ mu = MuUnlocked
    /\ tMu = 0
    /\ th = [p \in Procs |-> Idle]
    /\ hist = [o \in TxnObjs |-> NoHistory]

\* The callers, small enough to explore and wide enough for every case:
\* one thread with all the keys and one identifier, one thread with one key
\* and all the identifiers, all the threads with one key and either all the
\* values or all the identifiers, and one thread with one key and the empty
\* key.
OneThread == {CHOOSE p \in Procs : \A q \in Procs : p <= q}
Callers(procs, keys, values, xids, history) ==
    [procs |-> procs, keys |-> keys, values |-> values, xids |-> xids,
     history |-> history]

Scopes(history) ==
    {Callers(OneThread, Keys, Values, {XidNames[1]}, history),
     Callers(OneThread, {KeyNames[1]}, Values, Xids, history),
     Callers(Procs, {KeyNames[1]}, Values, {XidNames[1]}, history),
     Callers(Procs, {KeyNames[1]}, {ValueNames[1]}, Xids, history),
     Callers(OneThread, {KeyNames[1], ""}, {ValueNames[1]}, {XidNames[1]},
             history)}

Init ==
    /\ InitState
    /\ scope \in Scopes(FALSE)

\* The same program, its history recorded: one thread with one key and all
\* the identifiers, and all the threads with one key and one identifier.
InitHistory ==
    /\ InitState
    /\ scope \in {Callers(OneThread, {KeyNames[1]}, Values, Xids, TRUE),
                  Callers(Procs, {KeyNames[1]}, Values, {XidNames[1]}, TRUE)}

(* ------------------------- locks (sync.RWMutex) ------------------------ *)
\* d.mu.Lock() / t.db.mu.Lock(): the places that take the store lock
\* exclusively, and where each continues.
MuLockNext(pc) ==
    CASE pc = "Put_Lock" -> "Put_Body"
      [] pc = "Delete_Lock" -> "Delete_Body"
      [] pc = "TxnPut_Lock" -> "TxnPut_Body"
      [] pc = "TxnDelete_Lock" -> "TxnDelete_Body"
      [] pc = "TxnGet_Lock" -> "TxnGet_Body"
      [] pc = "Commit_Lock" -> "Commit_Validate"
      [] pc = "Deferred_Lock" -> "Deferred_Delete"
      [] OTHER -> ""

muLock(p) ==
    /\ MuLockNext(th[p].pc) # ""
    /\ MuFree
    /\ mu' = [w |-> p, r |-> {}]
    /\ th' = Goto(p, MuLockNext(th[p].pc))
    /\ UNCHANGED <<data, activeTransactions, txns, tMu, hist, scope>>

\* d.mu.RLock() in Get.
muRLock(p) ==
    /\ th[p].pc = "Get_RLock"
    /\ mu.w = 0
    /\ mu' = [mu EXCEPT !.r = @ \cup {p}]
    /\ th' = Goto(p, "Get_Body")
    /\ UNCHANGED <<data, activeTransactions, txns, tMu, hist, scope>>

\* d.tMu.Lock() in getTransaction.
tMuLock(p) ==
    /\ th[p].pc = "tMu_Lock"
    /\ tMu = 0
    /\ tMu' = p
    /\ th' = Goto(p, "getTransaction")
    /\ UNCHANGED <<data, activeTransactions, txns, mu, hist, scope>>

(* --------------------- non-transactional operations -------------------- *)
\* A call, by one of the callers.  A call with the empty key returns
\* ErrKeyEmpty before any lock.
CallKey(p, op, key, value, pc) ==
    /\ p \in scope.procs
    /\ th' = [th EXCEPT ![p] =
                IF key = ""
                THEN Returned(Invoke(op, key, value, "", "idle"), ErrKeyEmpty, "")
                ELSE Invoke(op, key, value, "", pc)]
    /\ UNCHANGED <<data, activeTransactions, txns, mu, tMu, hist, scope>>

Put(p) ==
    /\ th[p].pc = "idle"
    /\ \E key \in KeyInputs, value \in ValueInputs :
         CallKey(p, "Put", key, value, "Put_Lock")

PutBody(p) ==
    /\ th[p].pc = "Put_Body"
    /\ HeapH(MapPut(data, th[p].key,
                    NewEntry(Alloc(data, txns, th[p].key), th[p].value)),
             txns, activeTransactions, Return(p, Nil, ""),
             Mutated(hist, {th[p].key}, 0))
    /\ mu' = MuUnlocked
    /\ UNCHANGED <<tMu, scope>>

Get(p) ==
    /\ th[p].pc = "idle"
    /\ \E key \in KeyInputs : CallKey(p, "Get", key, "", "Get_RLock")

GetBody(p) ==
    /\ th[p].pc = "Get_Body"
    /\ th' = IF th[p].key \in DOMAIN data
             THEN Return(p, Nil, data[th[p].key].Value)
             ELSE Return(p, ErrKeyNotFound, "")
    /\ mu' = [mu EXCEPT !.r = @ \ {p}]
    /\ UNCHANGED <<data, activeTransactions, txns, tMu, hist, scope>>

Delete(p) ==
    /\ th[p].pc = "idle"
    /\ \E key \in KeyInputs : CallKey(p, "Delete", key, "", "Delete_Lock")

\* A faulty variant: the delete of a key the store does not hold succeeds.
DeleteBodyAbsent(p) ==
    /\ th[p].pc = "Delete_Body"
    /\ HeapH(MapDelete(data, th[p].key), txns, activeTransactions,
             Return(p, Nil, ""), Mutated(hist, {th[p].key}, 0))
    /\ mu' = MuUnlocked
    /\ UNCHANGED <<tMu, scope>>

DeleteBody(p) ==
    /\ th[p].pc = "Delete_Body"
    /\ IF th[p].key \in DOMAIN data
       THEN HeapH(MapDelete(data, th[p].key), txns, activeTransactions,
                  Return(p, Nil, ""), Mutated(hist, {th[p].key}, 0))
       ELSE Heap(data, txns, activeTransactions, Return(p, ErrKeyNotFound, ""))
    /\ mu' = MuUnlocked
    /\ UNCHANGED <<tMu, scope>>

(* ----------------------------- registry -------------------------------- *)
\* The entry of every transactional call: getTransaction's test of the
\* identifier.  The empty identifier returns at once, with no lock taken.
CallTxn(p, op, key, value, xid) ==
    /\ p \in scope.procs
    /\ th' = [th EXCEPT ![p] =
                IF xid = ""
                THEN [Invoke(op, key, value, xid, "resume") EXCEPT
                         !.err = ErrTransactionIDEmpty]
                ELSE Invoke(op, key, value, xid, "tMu_Lock")]
    /\ UNCHANGED <<data, activeTransactions, txns, mu, tMu, hist, scope>>

\* getTransaction, the lock held: the lookup.
getTransaction(p) ==
    /\ th[p].pc = "getTransaction"
    /\ th' = [th EXCEPT ![p] =
                IF th[p].xid \in DOMAIN activeTransactions
                THEN [@ EXCEPT !.pc = "resume", !.err = Nil,
                               !.transaction = activeTransactions[th[p].xid]]
                ELSE [@ EXCEPT !.pc = "resume", !.err = ErrTransactionNotFound]]
    /\ UNCHANGED <<data, activeTransactions, txns, mu, tMu, hist, scope>>

CreateTransaction(p) ==
    /\ th[p].pc = "idle"
    /\ \E xid \in XidInputs : CallTxn(p, "CreateTransaction", "", "", xid)

\* A faulty variant: an active identifier is not tested for; its transaction
\* is replaced.
CreateTransactionBodyReplace(p) ==
    /\ th[p].pc = "resume" /\ th[p].op = "CreateTransaction"
    /\ IF th[p].err # Nil /\ th[p].err # ErrTransactionNotFound
       THEN Heap(data, txns, activeTransactions, Return(p, th[p].err, ""))
       ELSE HeapH(data,
                  [txns EXCEPT ![AllocTxn(activeTransactions, th)] = EmptyMap],
                  MapPut(activeTransactions, th[p].xid,
                         AllocTxn(activeTransactions, th)),
                  Return(p, Nil, ""),
                  [hist EXCEPT ![AllocTxn(activeTransactions, th)] = NoHistory])
    /\ tMu' = Release(p)
    /\ UNCHANGED <<mu, scope>>

\* A faulty variant: every error of getTransaction is returned, the
\* identifier that is not active included.
CreateTransactionBodyNotFound(p) ==
    /\ th[p].pc = "resume" /\ th[p].op = "CreateTransaction"
    /\ IF th[p].err # Nil
       THEN Heap(data, txns, activeTransactions, Return(p, th[p].err, ""))
       ELSE Heap(data, txns, activeTransactions,
                 Return(p, ErrTransactionExists, ""))
    /\ tMu' = Release(p)
    /\ UNCHANGED <<mu, scope>>

CreateTransactionBody(p) ==
    /\ th[p].pc = "resume" /\ th[p].op = "CreateTransaction"
    /\ IF th[p].err # Nil /\ th[p].err # ErrTransactionNotFound
       THEN Heap(data, txns, activeTransactions, Return(p, th[p].err, ""))
       ELSE IF th[p].transaction # 0
       THEN Heap(data, txns, activeTransactions,
                 Return(p, ErrTransactionExists, ""))
       ELSE HeapH(data,
                  [txns EXCEPT ![AllocTxn(activeTransactions, th)] = EmptyMap],
                  MapPut(activeTransactions, th[p].xid,
                         AllocTxn(activeTransactions, th)),
                  Return(p, Nil, ""),
                  [hist EXCEPT ![AllocTxn(activeTransactions, th)] = NoHistory])
    /\ tMu' = Release(p)
    /\ UNCHANGED <<mu, scope>>

(* ----------------------- Transaction (the overlay) --------------------- *)
\* A faulty variant: a deleted record stays deleted.
PutCachedNoFlip(uEntry, value) ==
    [uEntry EXCEPT !.newValue = <<value>>]

\* A faulty variant: the record becomes an updated one, whatever it was.
PutCachedUpdated(uEntry, value) ==
    [uEntry EXCEPT !.state = stateUpdated, !.newValue = <<value>>]

\* Transaction.Put on a key of the local cache (part_000 lines 42-48).
PutCached(uEntry, value) ==
    [uEntry EXCEPT !.state = IF @ = stateDeleted THEN stateUpdated ELSE @,
                   !.newValue = <<value>>]

\* Transaction.Put on a key not in the local cache (part_000 lines 52-74).
PutFresh(d, key, value) ==
    IF key \in DOMAIN d
    THEN [oldValue |-> <<d[key]>>, newValue |-> <<value>>, state |-> stateUpdated]
    ELSE [oldValue |-> <<>>, newValue |-> <<value>>, state |-> stateAdded]

PutTxn(p) ==
    /\ th[p].pc = "idle"
    /\ \E key \in TxnKeyInputs, value \in ValueInputs, xid \in XidInputs :
         CallTxn(p, "PutTxn", key, value, xid)

TransactionPut(p) ==
    /\ th[p].pc = "resume" /\ th[p].op = "PutTxn"
    /\ LET t == th[p].transaction
           key == th[p].key
       IN IF th[p].err # Nil
          THEN /\ Heap(data, txns, activeTransactions, Return(p, th[p].err, ""))
               /\ tMu' = Release(p)
          ELSE IF key \in DOMAIN txns[t]
          THEN /\ Heap(data, [txns EXCEPT ![t][key] = PutCached(@, th[p].value)],
                       activeTransactions, Return(p, Nil, ""))
               /\ tMu' = Release(p)
          ELSE /\ th' = Goto(p, "TxnPut_Lock")
               /\ UNCHANGED <<data, activeTransactions, txns, tMu, hist>>
    /\ UNCHANGED <<mu, scope>>

\* A faulty variant: the staged value is also written to the store.
TransactionPutBodyWriteThrough(p) ==
    /\ th[p].pc = "TxnPut_Body"
    /\ Heap(MapPut(data, th[p].key,
                   NewEntry(Alloc(data, txns, th[p].key), th[p].value)),
            [txns EXCEPT ![th[p].transaction] =
                MapPut(@, th[p].key, PutFresh(data, th[p].key, th[p].value))],
            activeTransactions, Return(p, Nil, ""))
    /\ mu' = MuUnlocked
    /\ tMu' = Release(p)
    /\ UNCHANGED scope

TransactionPutBody(p) ==
    /\ th[p].pc = "TxnPut_Body"
    /\ Heap(data,
            [txns EXCEPT ![th[p].transaction] =
                MapPut(@, th[p].key, PutFresh(data, th[p].key, th[p].value))],
            activeTransactions, Return(p, Nil, ""))
    /\ mu' = MuUnlocked
    /\ tMu' = Release(p)
    /\ UNCHANGED scope

DeleteTxn(p) ==
    /\ th[p].pc = "idle"
    /\ \E key \in TxnKeyInputs, xid \in XidInputs :
         CallTxn(p, "DeleteTxn", key, "", xid)

\* A faulty variant: the record's newValue is not cleared.
DeleteCachedKeepsNew(uncommitedData, key) ==
    IF uncommitedData[key].state = stateAdded
    THEN MapDelete(uncommitedData, key)
    ELSE [uncommitedData EXCEPT ![key].state = stateDeleted]

\* A faulty variant: an added record is marked deleted like any other.
DeleteCachedMarks(uncommitedData, key) ==
    [uncommitedData EXCEPT ![key].state = stateDeleted,
                           ![key].newValue = <<>>]

\* Transaction.Delete on a key of the local cache (part_000 lines 80-89).
DeleteCached(uncommitedData, key) ==
    IF uncommitedData[key].state = stateAdded
    THEN MapDelete(uncommitedData, key)
    ELSE [uncommitedData EXCEPT ![key].state = stateDeleted,
                                ![key].newValue = <<>>]

\* Transaction.Delete on a key of the database (part_000 lines 93-105).
DeleteFresh(d, key) ==
    [oldValue |-> <<d[key]>>, newValue |-> <<>>, state |-> stateDeleted]

TransactionDelete(p) ==
    /\ th[p].pc = "resume" /\ th[p].op = "DeleteTxn"
    /\ LET t == th[p].transaction
           key == th[p].key
       IN IF th[p].err # Nil
          THEN /\ Heap(data, txns, activeTransactions, Return(p, th[p].err, ""))
               /\ tMu' = Release(p)
          ELSE IF key \in DOMAIN txns[t]
          THEN /\ Heap(data, [txns EXCEPT ![t] = DeleteCached(@, key)],
                       activeTransactions, Return(p, Nil, ""))
               /\ tMu' = Release(p)
          ELSE /\ th' = Goto(p, "TxnDelete_Lock")
               /\ UNCHANGED <<data, activeTransactions, txns, tMu, hist>>
    /\ UNCHANGED <<mu, scope>>

TransactionDeleteBody(p) ==
    /\ th[p].pc = "TxnDelete_Body"
    /\ IF th[p].key \in DOMAIN data
       THEN Heap(data,
                 [txns EXCEPT ![th[p].transaction] =
                     MapPut(@, th[p].key, DeleteFresh(data, th[p].key))],
                 activeTransactions, Return(p, Nil, ""))
       ELSE Heap(data, txns, activeTransactions, Return(p, ErrKeyNotFound, ""))
    /\ mu' = MuUnlocked
    /\ tMu' = Release(p)
    /\ UNCHANGED scope

GetTxn(p) ==
    /\ th[p].pc = "idle"
    /\ \E key \in TxnKeyInputs, xid \in XidInputs :
         CallTxn(p, "GetTxn", key, "", xid)

\* Transaction.Get on a key of the local cache (part_000 lines 115-120):
\* the pair (error, value) it returns.
\* A faulty variant: a deleted record answers with the value it deleted.
GetCachedDeleted(uEntry) ==
    IF uEntry.state = stateDeleted
    THEN <<Nil, uEntry.oldValue[1].Value>>
    ELSE <<Nil, uEntry.newValue[1]>>

GetCached(uEntry) ==
    IF uEntry.state = stateDeleted
    THEN <<ErrKeyNotFound, "">>
    ELSE <<Nil, uEntry.newValue[1]>>

\* Transaction.Get on a key of the database (part_000 lines 122-128).
GetFresh(d, key) ==
    IF key \in DOMAIN d THEN <<Nil, d[key].Value>> ELSE <<ErrKeyNotFound, "">>

TransactionGet(p) ==
    /\ th[p].pc = "resume" /\ th[p].op = "GetTxn"
    /\ LET t == th[p].transaction
           key == th[p].key
       IN IF th[p].err # Nil
          THEN /\ Heap(data, txns, activeTransactions, Return(p, th[p].err, ""))
               /\ tMu' = Release(p)
          ELSE IF key \in DOMAIN txns[t]
          THEN /\ Heap(data, txns, activeTransactions,
                       Return(p, GetCached(txns[t][key])[1],
                                 GetCached(txns[t][key])[2]))
               /\ tMu' = Release(p)
          ELSE /\ th' = Goto(p, "TxnGet_Lock")
               /\ UNCHANGED <<data, activeTransactions, txns, tMu, hist>>
    /\ UNCHANGED <<mu, scope>>

TransactionGetBody(p) ==
    /\ th[p].pc = "TxnGet_Body"
    /\ Heap(data, txns, activeTransactions,
            Return(p, GetFresh(data, th[p].key)[1], GetFresh(data, th[p].key)[2]))
    /\ mu' = MuUnlocked
    /\ tMu' = Release(p)
    /\ UNCHANGED scope

(* --------------------------- commit, rollback --------------------------- *)
\* uEntry.oldValue != &entry.Value (database.go line 205) compares two
\* pointers: they are equal when both point into the same Entry.
SamePointer(ptr, entry) == ptr # <<>> /\ ptr[1].addr = entry.addr

\* A faulty variant: only the records of keys the transaction found in the store
\* are tested.
DiscrepancyOfUpdates(uEntry, d, key) ==
    /\ uEntry.state # stateAdded
    /\ \/ key \notin DOMAIN d
       \/ ~SamePointer(uEntry.oldValue, d[key])

\* The test of one record of the local cache against the store
\* (database.go lines 197-208).
Discrepancy(uEntry, d, key) ==
    \/ key \notin DOMAIN d /\ uEntry.state # stateAdded
    \/ /\ key \in DOMAIN d
       /\ \/ uEntry.state = stateAdded
          \/ ~SamePointer(uEntry.oldValue, d[key])

\* A faulty variant: a deleted record is not applied.
ApplyEntryNoDelete(d, t, uEntry, key) ==
    IF uEntry.state \in {stateAdded, stateUpdated}
    THEN MapPut(d, key, NewEntry(Alloc(d, t, key), uEntry.newValue[1]))
    ELSE d

\* One record written to the store (database.go lines 212-217).
ApplyEntry(d, t, uEntry, key) ==
    IF uEntry.state \in {stateAdded, stateUpdated}
    THEN MapPut(d, key, NewEntry(Alloc(d, t, key), uEntry.newValue[1]))
    ELSE MapDelete(d, key)

\* The loop of database.go lines 211-218 over the keys ks still to write.
RECURSIVE ApplyAll(_, _, _, _)
ApplyAll(d, t, uncommitedData, ks) ==
    IF ks = {}
    THEN d
    ELSE LET key == CHOOSE k \in ks : TRUE
         IN ApplyAll(ApplyEntry(d, t, uncommitedData[key], key), t,
                     uncommitedData, ks \ {key})

\* A terminal call is about to return err.  Its deferred calls run:
\* d.mu.Unlock (when held), release(), and then the removal of the
\* identifier, which takes d.mu again.
Deferred(p, err) ==
    [th EXCEPT ![p].pc = "Deferred_Lock", ![p].err = err, ![p].transaction = 0]

RollbackTransaction(p) ==
    /\ th[p].pc = "idle"
    /\ \E xid \in XidInputs : CallTxn(p, "RollbackTransaction", "", "", xid)

RollbackTransactionBody(p) ==
    /\ th[p].pc = "resume" /\ th[p].op = "RollbackTransaction"
    /\ HeapH(data, txns, activeTransactions, Deferred(p, th[p].err),
             IF th[p].err = Nil THEN Ended(hist, th[p].transaction) ELSE hist)
    /\ tMu' = Release(p)
    /\ UNCHANGED <<mu, scope>>

CommitTransaction(p) ==
    /\ th[p].pc = "idle"
    /\ \E xid \in XidInputs : CallTxn(p, "CommitTransaction", "", "", xid)

CommitTransactionBody(p) ==
    /\ th[p].pc = "resume" /\ th[p].op = "CommitTransaction"
    /\ IF th[p].err # Nil
       THEN /\ Heap(data, txns, activeTransactions, Deferred(p, th[p].err))
            /\ tMu' = Release(p)
       ELSE /\ th' = Goto(p, "Commit_Lock")
            /\ UNCHANGED <<data, activeTransactions, txns, tMu, hist>>
    /\ UNCHANGED <<mu, scope>>

\* A faulty variant: one loop tests and writes: the records without a discrepancy are
\* written although another record has one.
CommitValidatePartial(p) ==
    /\ th[p].pc = "Commit_Validate"
    /\ LET u == txns[th[p].transaction]
       IN IF \E key \in DOMAIN u : Discrepancy(u[key], data, key)
          THEN /\ Heap(ApplyAll(data, txns, u,
                                {key \in DOMAIN u :
                                    ~Discrepancy(u[key], data, key)}),
                       txns, activeTransactions,
                       Deferred(p, ErrTransactionDiscrepancy))
               /\ mu' = MuUnlocked
               /\ tMu' = Release(p)
          ELSE /\ th' = Goto(p, "Commit_Apply")
               /\ UNCHANGED <<data, activeTransactions, txns, mu, tMu, hist>>
    /\ UNCHANGED scope

\* The first loop: any discrepancy returns the error, nothing written.
CommitValidate(p) ==
    /\ th[p].pc = "Commit_Validate"
    /\ LET u == txns[th[p].transaction]
       IN IF \E key \in DOMAIN u : Discrepancy(u[key], data, key)
          THEN /\ Heap(data, txns, activeTransactions,
                       Deferred(p, ErrTransactionDiscrepancy))
               /\ mu' = MuUnlocked
               /\ tMu' = Release(p)
          ELSE /\ th' = Goto(p, "Commit_Apply")
               /\ UNCHANGED <<data, activeTransactions, txns, mu, tMu, hist>>
    /\ UNCHANGED scope

\* The second loop: no discrepancies, update database.
CommitApply(p) ==
    /\ th[p].pc = "Commit_Apply"
    /\ LET u == txns[th[p].transaction]
       IN HeapH(ApplyAll(data, txns, u, DOMAIN u), txns, activeTransactions,
                Deferred(p, Nil), Committed(hist, txns, th[p].transaction))
    /\ mu' = MuUnlocked
    /\ tMu' = Release(p)
    /\ UNCHANGED scope

\* A faulty variant: the identifier is removed only when the call succeeded.
DeferredDeleteOnSuccess(p) ==
    /\ th[p].pc = "Deferred_Delete"
    /\ Heap(data, txns,
            IF th[p].err = Nil
            THEN MapDelete(activeTransactions, th[p].xid)
            ELSE activeTransactions,
            Return(p, th[p].err, ""))
    /\ mu' = MuUnlocked
    /\ UNCHANGED <<tMu, scope>>

\* A faulty variant: only CommitTransaction defers the removal.
DeferredDeleteOfCommit(p) ==
    /\ th[p].pc = "Deferred_Delete"
    /\ Heap(data, txns,
            IF th[p].op = "CommitTransaction"
            THEN MapDelete(activeTransactions, th[p].xid)
            ELSE activeTransactions,
            Return(p, th[p].err, ""))
    /\ mu' = MuUnlocked
    /\ UNCHANGED <<tMu, scope>>

\* The deferred func of RollbackTransaction and CommitTransaction
\* (database.go lines 163-167 and 180-184), d.mu held.
DeferredDelete(p) ==
    /\ th[p].pc = "Deferred_Delete"
    /\ Heap(data, txns, MapDelete(activeTransactions, th[p].xid),
            Return(p, th[p].err, ""))
    /\ mu' = MuUnlocked
    /\ UNCHANGED <<tMu, scope>>

\* The thread's next step reads or writes the map d.activeTransactions: the
\* lookup of getTransaction (database.go line 65), the assignment of
\* CreateTransaction (line 156), the delete of the deferred funcs (lines
\* 165 and 182).
RegistryAccess(p) ==
    \/ th[p].pc = "getTransaction"
    \/ /\ th[p].pc = "resume" /\ th[p].op = "CreateTransaction"
       /\ th[p].err = ErrTransactionNotFound
    \/ th[p].pc = "Deferred_Delete"

\* The deferred delete runs under d.mu, the lookup and the assignment under
\* d.tMu: the accesses of two threads can overlap, a data race on a Go map.
\* The accesses may take effect in either order (the steps above, in either
\* order), or the runtime detects the overlap and ends the process with
\* "fatal error: concurrent map read and map write" or "concurrent map
\* writes": no call returns any more.
Fatal(p) ==
    /\ th[p].pc = "Deferred_Delete"
    /\ \E q \in Procs \ {p} : RegistryAccess(q)
    /\ th' = [q \in Procs |-> [th[q] EXCEPT !.pc = "fatal"]]
    /\ UNCHANGED <<data, activeTransactions, txns, mu, tMu, hist, scope>>

\* The caller has the result; the thread is free for its next call.
Done(p) ==
    /\ th[p].pc = "ret"
    /\ th' = [th EXCEPT ![p] = Idle]
    /\ UNCHANGED <<data, activeTransactions, txns, mu, tMu, hist, scope>>

Next ==
    \E p \in Procs :
        \/ Put(p) \/ PutBody(p)
        \/ Get(p) \/ GetBody(p)
        \/ Delete(p) \/ DeleteBody(p)
        \/ muLock(p) \/ muRLock(p) \/ tMuLock(p)
        \/ getTransaction(p)
        \/ CreateTransaction(p) \/ CreateTransactionBody(p)
        \/ PutTxn(p) \/ TransactionPut(p) \/ TransactionPutBody(p)
        \/ DeleteTxn(p) \/ TransactionDelete(p) \/ TransactionDeleteBody(p)
        \/ GetTxn(p) \/ TransactionGet(p) \/ TransactionGetBody(p)
        \/ RollbackTransaction(p) \/ RollbackTransactionBody(p)
        \/ CommitTransaction(p) \/ CommitTransactionBody(p)
        \/ CommitValidate(p) \/ CommitApply(p)
        \/ DeferredDelete(p)
        \/ Fatal(p)
        \/ Done(p)

Spec == Init /\ [][Next]_vars

SpecHistory == InitHistory /\ [][Next]_vars

\* The program under a fair scheduler: all the threads, one key, one value
\* and one identifier.  A thread that can run does run, and a thread that
\* waits for a lock gets it if the lock is free again and again: a
\* sync.Mutex hands the lock to a waiter that has waited long (starvation
\* mode), and a sync.RWMutex lets no new reader pass a waiting writer.  A
\* caller is not bound to call, and the runtime is not bound to detect a
\* race.
InitFair ==
    /\ InitState
    /\ scope = Callers(Procs, {KeyNames[1]}, {ValueNames[1]}, {XidNames[1]},
                       FALSE)

Runs(p) ==
    \/ PutBody(p) \/ GetBody(p) \/ DeleteBody(p)
    \/ getTransaction(p) \/ CreateTransactionBody(p)
    \/ TransactionPut(p) \/ TransactionPutBody(p)
    \/ TransactionDelete(p) \/ TransactionDeleteBody(p)
    \/ TransactionGet(p) \/ TransactionGetBody(p)
    \/ RollbackTransactionBody(p) \/ CommitTransactionBody(p)
    \/ CommitValidate(p) \/ CommitApply(p)
    \/ DeferredDelete(p)

Locks(p) == muLock(p) \/ muRLock(p) \/ tMuLock(p)

SpecFair ==
    /\ InitFair
    /\ [][Next]_vars
    /\ \A p \in Procs : WF_vars(Runs(p)) /\ SF_vars(Locks(p))

(* ======================================================================= *)
(*                              The claims                                 *)
(* ======================================================================= *)
\* The step is a step of thread p's call (not the end of the process).
Steps(p) == th'[p].pc # th[p].pc /\ th'[p].pc # "fatal"
\* The step is a step of p's call of op (its invocation included).
Acts(p, op) == Steps(p) /\ (th[p].op = op \/ th'[p].op = op)
\* What the committed store holds: key -> value.
Store(d) == [key \in DOMAIN d |-> d[key].Value]
\* What a read of key in the committed store d returns: (error, value).
Read(d, key) ==
    IF key \in DOMAIN d THEN <<Nil, d[key].Value>> ELSE <<ErrKeyNotFound, "">>
\* The overlay of the active transaction xid.
Overlay(xid) == txns[activeTransactions[xid]]
Result(p) == <<th[p].err, th[p].ret>>
TxnOps == {"PutTxn", "GetTxn", "DeleteTxn", "CommitTransaction",
           "RollbackTransaction"}

(* C1: uncommitted writes are invisible outside their transaction.  No step
   of a PutTxn or DeleteTxn changes the committed store; the store changes
   only in the write of a non-transactional Put or Delete and in the apply
   step of a CommitTransaction that returns no error; and a Get, and a
   GetTxn of a transaction with no record for the key, return what the
   committed store holds, whatever other transactions have staged. *)
C1_Step(p) ==
    /\ (Acts(p, "PutTxn") \/ Acts(p, "DeleteTxn")) => Store(data') = Store(data)
    /\ Store(data') # Store(data) =>
         \/ th[p].pc \in {"Put_Body", "Delete_Body"}
         \/ /\ th[p].pc = "Commit_Apply" /\ th[p].op = "CommitTransaction"
            /\ th'[p].err = Nil
    /\ th[p].pc \in {"Get_Body", "TxnGet_Body"} =>
         /\ Result(p)' = Read(data, th[p].key)
         /\ th'[p].pc = "ret"
    /\ (/\ th[p].pc = "resume" /\ th[p].op = "GetTxn" /\ th[p].err = Nil
        /\ th[p].key \notin DOMAIN txns[th[p].transaction])
         => th'[p].pc = "TxnGet_Lock"

C1_UncommittedInvisible == [][\A p \in Procs : Steps(p) => C1_Step(p)]_vars

\* C1's case: a Get has returned the committed value of a key for which an
\* active transaction holds another, staged, value.
C1_Witness ==
    \E p \in Procs, x \in DOMAIN activeTransactions :
        /\ th[p].pc = "ret" /\ th[p].op = "Get" /\ th[p].err = Nil
        /\ th[p].key \in DOMAIN Overlay(x)
        /\ Overlay(x)[th[p].key].newValue # <<>>
        /\ Overlay(x)[th[p].key].newValue # <<th[p].ret>>
        /\ data[th[p].key].Value = th[p].ret

(* C2: GetTxn(k, x) returns the committed state overlaid with x's pending
   changes: the record's newValue, KeyNotFound for a Deleted record, and with
   no record what the committed store holds; and it changes neither an
   overlay nor the store. *)
Overlaid(u, d, key) ==
    IF key \in DOMAIN u
    THEN IF u[key].state = stateDeleted
         THEN <<ErrKeyNotFound, "">>
         ELSE <<Nil, u[key].newValue[1]>>
    ELSE Read(d, key)

C2_Step(p) ==
    /\ (th'[p].pc = "ret" /\ th[p].err = Nil /\ th[p].transaction # 0) =>
         Result(p)' = Overlaid(txns[th[p].transaction], data, th[p].key)
    /\ data' = data
    /\ \A x \in DOMAIN activeTransactions :
         /\ x \in DOMAIN activeTransactions'
         /\ txns'[activeTransactions'[x]] = Overlay(x)

C2_GetTxnOverlay == [][\A p \in Procs : Acts(p, "GetTxn") => C2_Step(p)]_vars

\* C2's case: a GetTxn has returned KeyNotFound for a key the committed store
\* holds, because the transaction's record of it is Deleted.
C2_Witness ==
    \E p \in Procs :
        /\ th[p].pc = "ret" /\ th[p].op = "GetTxn"
        /\ th[p].err = ErrKeyNotFound
        /\ th[p].key \in DOMAIN data
        /\ th[p].xid \in DOMAIN activeTransactions
        /\ th[p].key \in DOMAIN Overlay(th[p].xid)
        /\ Overlay(th[p].xid)[th[p].key].state = stateDeleted

(* C3: a CommitTransaction that returns no error has applied its overlay:
   the store then holds newValue for every Added or Updated key, no entry
   for every Deleted key, and is unchanged for every key without a record.
   A commit returns no error only through its apply step. *)
C3_Applied(u, d, dd) ==
    \A key \in (DOMAIN u) \cup (DOMAIN d) \cup (DOMAIN dd) :
        IF key \in DOMAIN u
        THEN IF u[key].state = stateDeleted
             THEN key \notin DOMAIN dd
             ELSE Read(dd, key) = <<Nil, u[key].newValue[1]>>
        ELSE Read(dd, key) = Read(d, key)

C3_Step(p) ==
    /\ th[p].pc = "Commit_Apply" =>
         /\ C3_Applied(txns[th[p].transaction], data, data')
         /\ th'[p].err = Nil
    /\ (th'[p].pc = "Deferred_Lock" /\ th'[p].err = Nil) =>
         th[p].pc = "Commit_Apply"
    /\ th[p].pc \in {"Deferred_Lock", "Deferred_Delete"} =>
         th'[p].err = th[p].err

C3_CommitApplies ==
    [][\A p \in Procs : Acts(p, "CommitTransaction") => C3_Step(p)]_vars

\* C3's case: a commit has applied a Deleted record, the key is gone, and
\* another key of the store, without a record, is still there.
C3_Witness ==
    \E p \in Procs :
        /\ th[p].pc = "Deferred_Lock" /\ th[p].op = "CommitTransaction"
        /\ th[p].err = Nil
        /\ th[p].xid \in DOMAIN activeTransactions
        /\ \E k1 \in DOMAIN Overlay(th[p].xid) :
              /\ Overlay(th[p].xid)[k1].state = stateDeleted
              /\ k1 \notin DOMAIN data
        /\ \E k2 \in DOMAIN data : k2 \notin DOMAIN Overlay(th[p].xid)

(* C4: a commit whose overlay holds an Added record for a key that the
   committed store now holds (the key was absent when the record was staged,
   so another writer created it since) returns TransactionConflict, and the
   store keeps what the other writer set. *)
C4_Step(p) ==
    LET u == txns[th[p].transaction]
    IN (\E key \in DOMAIN u : u[key].state = stateAdded /\ key \in DOMAIN data)
       => /\ th'[p].pc = "Deferred_Lock"
          /\ th'[p].err = ErrTransactionDiscrepancy
          /\ data' = data

C4_AddedConflict ==
    [][\A p \in Procs :
          (Steps(p) /\ th[p].pc = "Commit_Validate") => C4_Step(p)]_vars

\* C4's case: a commit has returned the discrepancy for an Added record whose
\* key the store holds.
C4_Witness ==
    \E p \in Procs :
        /\ th[p].pc = "Deferred_Lock" /\ th[p].op = "CommitTransaction"
        /\ th[p].err = ErrTransactionDiscrepancy
        /\ th[p].xid \in DOMAIN activeTransactions
        /\ \E key \in DOMAIN Overlay(th[p].xid) :
              /\ Overlay(th[p].xid)[key].state = stateAdded
              /\ key \in DOMAIN data

(* C5: a commit never reaches its apply step with a pending change for a
   key that was written in the committed store (created, overwritten or
   deleted by a non-transactional operation or by another transaction's
   commit) after the transaction was created. *)
C5_ConflictOnMutation ==
    \A p \in Procs :
        th[p].pc = "Commit_Apply" =>
            (DOMAIN txns[th[p].transaction])
                \cap hist[th[p].transaction].mutated = {}

(* C6: a commit is all-or-nothing: a commit that finds a discrepancy returns
   the error with the store as it was, for every key; only the apply step of
   a commit changes the store, and a commit that has applied returns no
   error. *)
C6_Step(p) ==
    /\ th[p].pc # "Commit_Apply" => Store(data') = Store(data)
    /\ th[p].pc = "Commit_Apply" => th'[p].err = Nil
    /\ th[p].pc \in {"Deferred_Lock", "Deferred_Delete"} =>
         th'[p].err = th[p].err
    /\ (/\ th[p].pc = "Commit_Validate"
        /\ \E key \in DOMAIN txns[th[p].transaction] :
              Discrepancy(txns[th[p].transaction][key], data, key))
         => /\ th'[p].pc = "Deferred_Lock"
            /\ th'[p].err = ErrTransactionDiscrepancy

C6_AllOrNothing ==
    [][\A p \in Procs : Acts(p, "CommitTransaction") => C6_Step(p)]_vars

\* C6's case: a commit has returned the discrepancy, one of its records
\* having none.
C6_Witness ==
    \E p \in Procs :
        /\ th[p].pc = "Deferred_Lock" /\ th[p].op = "CommitTransaction"
        /\ th[p].err = ErrTransactionDiscrepancy
        /\ th[p].xid \in DOMAIN activeTransactions
        /\ \E k1, k2 \in DOMAIN Overlay(th[p].xid) :
              /\ Discrepancy(Overlay(th[p].xid)[k1], data, k1)
              /\ ~Discrepancy(Overlay(th[p].xid)[k2], data, k2)

(* C7: conflict detection compares values by content: a commit returns the
   discrepancy if and only if one of its records is Added with its key in
   the store, or is not Added with its key missing from the store or holding
   a value that differs from the record's priorValue. *)
ContentDiscrepancy(uEntry, d, key) ==
    IF uEntry.state = stateAdded
    THEN key \in DOMAIN d
    ELSE \/ key \notin DOMAIN d
         \/ uEntry.oldValue = <<>>
         \/ d[key].Value # uEntry.oldValue[1].Value

C7_Step(p) ==
    LET u == txns[th[p].transaction]
    IN th'[p].err = ErrTransactionDiscrepancy
       <=> \E key \in DOMAIN u : ContentDiscrepancy(u[key], data, key)

C7_ContentComparison ==
    [][\A p \in Procs :
          (Steps(p) /\ th[p].pc = "Commit_Validate") => C7_Step(p)]_vars

(* C8: validation and application of a commit are one atomic step: at the
   apply step no record has a discrepancy; and of two transactions that
   staged a change of a key from the same committed state at most one
   commits: no commit reaches its apply step with a record of a key that a
   rival has committed. *)
C8_AtApply(p) ==
    LET u == txns[th[p].transaction]
    IN /\ mu.w = p /\ tMu = p
       /\ \A key \in DOMAIN u : ~Discrepancy(u[key], data, key)

C8_AtomicCommit ==
    \A p \in Procs :
        th[p].pc = "Commit_Apply" =>
            /\ C8_AtApply(p)
            /\ (DOMAIN txns[th[p].transaction])
                  \cap hist[th[p].transaction].rival = {}

\* The first half of C8 alone.
C8_ValidatedAtApply ==
    \A p \in Procs : th[p].pc = "Commit_Apply" => C8_AtApply(p)

(* C9: CommitTransaction(x) on an active x removes x from the registry
   whatever the outcome: when it returns, with no error or with the
   discrepancy, x is not active; a call on an identifier that is not active
   returns TransactionNotFound; and an identifier becomes active only by a
   CreateTransaction of it. *)
C9_Step(p) ==
    /\ (/\ th[p].op = "CommitTransaction" /\ th'[p].pc = "ret"
        /\ th[p].err \in {Nil, ErrTransactionDiscrepancy})
         => th[p].xid \notin DOMAIN activeTransactions'
    /\ (/\ th[p].op \in TxnOps /\ th[p].pc = "getTransaction"
        /\ th[p].xid \notin DOMAIN activeTransactions)
         => th'[p].err = ErrTransactionNotFound
    /\ (/\ th[p].op \in TxnOps /\ th[p].err = ErrTransactionNotFound
        /\ th[p].pc \in {"resume", "Deferred_Lock", "Deferred_Delete"})
         => /\ th'[p].err = ErrTransactionNotFound
            /\ th'[p].pc \in {"ret", "Deferred_Lock", "Deferred_Delete"}
    /\ \A x \in (DOMAIN activeTransactions') \ (DOMAIN activeTransactions) :
         th[p].op = "CreateTransaction" /\ th[p].xid = x

C9_CommitRemoves == [][\A p \in Procs : Steps(p) => C9_Step(p)]_vars

\* C9's case: a commit has returned the discrepancy and its identifier is
\* not active.
C9_Witness ==
    \E p \in Procs :
        /\ th[p].pc = "ret" /\ th[p].op = "CommitTransaction"
        /\ th[p].err = ErrTransactionDiscrepancy
        /\ th[p].xid \notin DOMAIN activeTransactions

(* C10: RollbackTransaction(x) on an active x returns no error, whatever the
   store and the overlay hold, changes the store for no key, and when it
   returns x is not active; on an identifier that is not active it returns
   TransactionNotFound, on the empty identifier EmptyTransactionId. *)
C10_Step(p) ==
    /\ Store(data') = Store(data)
    /\ th[p].pc = "idle" =>
         th'[p].err = IF th'[p].xid = "" THEN ErrTransactionIDEmpty ELSE Nil
    /\ th[p].pc = "getTransaction" =>
         th'[p].err = IF th[p].xid \in DOMAIN activeTransactions
                      THEN Nil ELSE ErrTransactionNotFound
    /\ th[p].pc \in {"resume", "Deferred_Lock", "Deferred_Delete"} =>
         /\ th'[p].err = th[p].err
         /\ th'[p].pc \in {"ret", "Deferred_Lock", "Deferred_Delete"}
    /\ th'[p].pc = "ret" => th[p].xid \notin DOMAIN activeTransactions'

C10_Rollback ==
    [][\A p \in Procs : Acts(p, "RollbackTransaction") => C10_Step(p)]_vars

\* C10's case: a rollback of a transaction with staged records is about to
\* return no error, the store holding none of what was staged.
C10_Witness ==
    \E p \in Procs :
        /\ th[p].pc = "Deferred_Delete" /\ th[p].op = "RollbackTransaction"
        /\ th[p].err = Nil
        /\ th[p].xid \in DOMAIN activeTransactions
        /\ \E key \in DOMAIN Overlay(th[p].xid) :
              /\ Overlay(th[p].xid)[key].state = stateAdded
              /\ key \notin DOMAIN data

(* C11: each created transaction is terminated exactly once: at most one
   terminal call (CommitTransaction, RollbackTransaction) succeeds on one
   created transaction, under every interleaving. *)
C11_TerminatedOnce == \A o \in TxnObjs : hist[o].ended <= 1

(* C12: CreateTransaction(id) returns EmptyTransactionId for the empty id and
   TransactionAlreadyExists for an id its lookup found active, and then
   changes nothing: the registry, every overlay and the store are as they
   were.  Otherwise it returns no error and installs id with an empty
   overlay, every other overlay as it was.  The registry holds one
   transaction per identifier, and no transaction under two identifiers. *)
SameOverlays(xs) ==
    \A x \in xs :
        /\ x \in DOMAIN activeTransactions /\ x \in DOMAIN activeTransactions'
        /\ txns'[activeTransactions'[x]] = Overlay(x)

C12_Return(p) ==
    IF th[p].err = ErrTransactionIDEmpty \/ th[p].transaction # 0
    THEN /\ th'[p].err = IF th[p].transaction # 0
                         THEN ErrTransactionExists
                         ELSE ErrTransactionIDEmpty
         /\ DOMAIN activeTransactions' = DOMAIN activeTransactions
         /\ SameOverlays(DOMAIN activeTransactions)
    ELSE /\ th'[p].err = Nil
         /\ th[p].xid \notin DOMAIN activeTransactions
         /\ DOMAIN activeTransactions' =
               (DOMAIN activeTransactions) \cup {th[p].xid}
         /\ txns'[activeTransactions'[th[p].xid]] = EmptyMap
         /\ SameOverlays(DOMAIN activeTransactions)

C12_Step(p) ==
    /\ data' = data
    /\ th[p].pc = "idle" =>
         (th'[p].err = ErrTransactionIDEmpty <=> th'[p].xid = "")
    /\ th[p].pc = "getTransaction" =>
         (th'[p].transaction # 0 <=> th[p].xid \in DOMAIN activeTransactions)
    /\ th[p].pc = "resume" => th'[p].pc = "ret" /\ C12_Return(p)
    /\ th[p].pc # "resume" =>
         /\ DOMAIN activeTransactions' = DOMAIN activeTransactions
         /\ SameOverlays(DOMAIN activeTransactions)
    /\ \A x, y \in DOMAIN activeTransactions' :
         activeTransactions'[x] = activeTransactions'[y] => x = y

C12_Create ==
    [][\A p \in Procs : Acts(p, "CreateTransaction") => C12_Step(p)]_vars

\* C12's case: a CreateTransaction has returned TransactionAlreadyExists for
\* an active identifier, whose overlay holds a pending record.
C12_Witness ==
    \E p \in Procs :
        /\ th[p].pc = "ret" /\ th[p].op = "CreateTransaction"
        /\ th[p].err = ErrTransactionExists
        /\ th[p].xid \in DOMAIN activeTransactions
        /\ Overlay(th[p].xid) # EmptyMap

(* C13: an identifier can be reused after its transaction ended.  When a
   CommitTransaction(x) or RollbackTransaction(x) that found x active
   returns, x is not active; a CreateTransaction(x) whose lookup finds x not
   active returns no error and installs x with an empty overlay; and what a
   commit decides rests on the records of the overlay it looked up alone. *)
C13_Step(p) ==
    /\ (/\ th[p].op \in {"CommitTransaction", "RollbackTransaction"}
        /\ th'[p].pc = "ret"
        /\ th[p].err \in {Nil, ErrTransactionDiscrepancy})
         => th[p].xid \notin DOMAIN activeTransactions'
    /\ (/\ th[p].op = "CreateTransaction" /\ th[p].pc = "getTransaction"
        /\ th[p].xid \notin DOMAIN activeTransactions)
         => /\ th'[p].pc = "resume"
            /\ th'[p].err = ErrTransactionNotFound
            /\ th'[p].transaction = 0
    /\ (/\ th[p].op = "CreateTransaction" /\ th[p].pc = "resume"
        /\ th[p].err = ErrTransactionNotFound /\ th[p].transaction = 0)
         => /\ th'[p].pc = "ret" /\ th'[p].err = Nil
            /\ th[p].xid \in DOMAIN activeTransactions'
            /\ txns'[activeTransactions'[th[p].xid]] = EmptyMap
    /\ th[p].pc = "Commit_Validate" =>
         (th'[p].err = ErrTransactionDiscrepancy
            <=> \E key \in DOMAIN txns[th[p].transaction] :
                   Discrepancy(txns[th[p].transaction][key], data, key))

C13_Reuse == [][\A p \in Procs : Steps(p) => C13_Step(p)]_vars

\* C13's case: a commit of x has returned, and after it a CreateTransaction(x)
\* has returned no error: x is active with an empty overlay.
C13_Witness ==
    \E p, q \in Procs :
        /\ th[q].pc = "ret" /\ th[q].op = "CommitTransaction"
        /\ th[q].err = Nil /\ data # EmptyMap
        /\ th[p].pc = "ret" /\ th[p].op = "CreateTransaction"
        /\ th[p].err = Nil /\ th[p].xid = th[q].xid
        /\ th[p].xid \in DOMAIN activeTransactions
        /\ Overlay(th[p].xid) = EmptyMap

(* C14: an empty key is always rejected: neither the committed store nor an
   overlay ever holds the empty key, and a Put, Get, Delete, PutTxn, GetTxn
   or DeleteTxn called with the empty key (and, for the transactional calls,
   an active identifier) returns EmptyKey. *)
KeyOps == {"Put", "Get", "Delete", "PutTxn", "GetTxn", "DeleteTxn"}

C14_EmptyKeyRejected ==
    /\ "" \notin DOMAIN data
    /\ \A o \in TxnObjs : "" \notin DOMAIN txns[o]
    /\ \A p \in Procs :
         (/\ th[p].pc = "ret" /\ th[p].op \in KeyOps /\ th[p].key = ""
          /\ th[p].err \notin {ErrTransactionIDEmpty, ErrTransactionNotFound})
            => th[p].err = ErrKeyEmpty

(* C15: DeleteTxn(k, x) returns KeyNotFound exactly when x has no record of k
   and the store does not hold k, and then changes neither the overlay nor
   the store.  With no record and k in the store it stages a Deleted record
   whose priorValue is the store's entry of k; with an Updated or Deleted
   record it leaves a Deleted record, newValue absent, priorValue as it
   was.  It returns no error in these cases, and never changes the store. *)
C15_Staged(u, d, key) ==
    IF key \in DOMAIN u
    THEN IF u[key].state = stateAdded
         THEN MapDelete(u, key)
         ELSE MapPut(u, key, [state |-> stateDeleted, newValue |-> <<>>,
                              oldValue |-> u[key].oldValue])
    ELSE IF key \in DOMAIN d
    THEN MapPut(u, key, [state |-> stateDeleted, newValue |-> <<>>,
                         oldValue |-> <<d[key]>>])
    ELSE u

C15_Return(p) ==
    LET u == txns[th[p].transaction]
        key == th[p].key
    IN /\ th'[p].err = ErrKeyNotFound
            <=> (key \notin DOMAIN u /\ key \notin DOMAIN data)
       /\ th'[p].err \in {Nil, ErrKeyNotFound}
       /\ (/\ th[p].xid \in DOMAIN activeTransactions
           /\ activeTransactions[th[p].xid] = th[p].transaction)
            => /\ th[p].xid \in DOMAIN activeTransactions'
               /\ txns'[activeTransactions'[th[p].xid]]
                     = C15_Staged(u, data, key)

C15_Step(p) ==
    /\ data' = data
    /\ (th'[p].pc = "ret" /\ th[p].err = Nil /\ th[p].transaction # 0)
         => C15_Return(p)

C15_DeleteTxn == [][\A p \in Procs : Acts(p, "DeleteTxn") => C15_Step(p)]_vars

\* C15's case: a DeleteTxn has returned no error and the overlay holds a
\* Deleted record of the key, its priorValue the value the store holds.
C15_Witness ==
    \E p \in Procs :
        /\ th[p].pc = "ret" /\ th[p].op = "DeleteTxn" /\ th[p].err = Nil
        /\ th[p].xid \in DOMAIN activeTransactions
        /\ th[p].key \in DOMAIN Overlay(th[p].xid)
        /\ th[p].key \in DOMAIN data
        /\ Overlay(th[p].xid)[th[p].key] =
             [state |-> stateDeleted, newValue |-> <<>>,
              oldValue |-> <<data[th[p].key]>>]

(* C16: the non-transactional operations act on the committed store at once
   and on nothing else.  Put(k, v) leaves v under k and returns no error;
   Get(k) returns what the store holds under k; Delete(k) removes a key the
   store holds and returns no error, and returns KeyNotFound, the store as
   it was, for a key it does not hold.  No other key changes, and no step of
   these calls changes an overlay or the registry, whatever is staged. *)
\* What the records of an overlay say, their priorValue by content.
Content(u) ==
    [key \in DOMAIN u |->
        [state |-> u[key].state, newValue |-> u[key].newValue,
         priorValue |-> [i \in DOMAIN u[key].oldValue |->
                            u[key].oldValue[i].Value]]]

C16_Step(p) ==
    /\ activeTransactions' = activeTransactions
    /\ \A o \in TxnObjs : Content(txns'[o]) = Content(txns[o])
    /\ th[p].pc = "Put_Body" =>
         /\ Store(data') = Store(MapPut(data, th[p].key,
                                        NewEntry(1, th[p].value)))
         /\ th'[p].pc = "ret" /\ th'[p].err = Nil
    /\ th[p].pc = "Get_Body" =>
         /\ Result(p)' = Read(data, th[p].key)
         /\ th'[p].pc = "ret"
    /\ th[p].pc = "Delete_Body" =>
         /\ Store(data') = Store(MapDelete(data, th[p].key))
         /\ th'[p].pc = "ret"
         /\ th'[p].err = IF th[p].key \in DOMAIN data
                         THEN Nil ELSE ErrKeyNotFound
    /\ th[p].pc \notin {"Put_Body", "Delete_Body"} => data' = data

C16_NonTransactional ==
    [][\A p \in Procs :
          (Acts(p, "Put") \/ Acts(p, "Get") \/ Acts(p, "Delete"))
             => C16_Step(p)]_vars

\* C16's case: a Delete has removed a key for which an active transaction
\* holds an Updated record, and the record is still there.
C16_Witness ==
    \E p \in Procs, x \in DOMAIN activeTransactions :
        /\ th[p].pc = "ret" /\ th[p].op = "Delete" /\ th[p].err = Nil
        /\ th[p].key \notin DOMAIN data
        /\ th[p].key \in DOMAIN Overlay(x)
        /\ Overlay(x)[th[p].key].state = stateUpdated

(* C17: every pending record of every overlay is well formed, in every
   reachable state: an Added record has priorValue absent and newValue
   present, an Updated record has both present, a Deleted record has
   priorValue present and newValue absent. *)
WellFormed(uEntry) ==
    CASE uEntry.state = stateAdded ->
            uEntry.oldValue = <<>> /\ uEntry.newValue # <<>>
      [] uEntry.state = stateUpdated ->
            uEntry.oldValue # <<>> /\ uEntry.newValue # <<>>
      [] uEntry.state = stateDeleted ->
            uEntry.oldValue # <<>> /\ uEntry.newValue = <<>>
      [] OTHER -> FALSE

C17_WellFormed ==
    \A o \in TxnObjs : \A key \in DOMAIN txns[o] : WellFormed(txns[o][key])

\* C17's case: the overlays hold an Added record and a Deleted record.
C17_Witness ==
    \E o1, o2 \in TxnObjs :
        \E k1 \in DOMAIN txns[o1], k2 \in DOMAIN txns[o2] :
            /\ txns[o1][k1].state = stateAdded
            /\ txns[o2][k2].state = stateDeleted

(* C18: while a transaction holds a pending record of a key, the record's
   priorValue never changes, whatever is done to the record and to the
   store: it is the value (or the absence) the store held for the key when
   the record was created.  A record never changes between Added and
   Updated or Deleted.  PutTxn on an existing record replaces newValue and
   turns Deleted into Updated, and nothing else. *)
PriorValue(uEntry) ==
    [i \in DOMAIN uEntry.oldValue |-> uEntry.oldValue[i].Value]

C18_Kept(old, new) ==
    /\ PriorValue(new) = PriorValue(old)
    /\ new.state = stateAdded <=> old.state = stateAdded

C18_Created(new, d, key) ==
    PriorValue(new) = IF key \in DOMAIN d THEN <<d[key].Value>> ELSE <<>>

C18_Frame ==
    \A x \in (DOMAIN activeTransactions) \cap (DOMAIN activeTransactions') :
        \A key \in DOMAIN txns'[activeTransactions'[x]] :
            IF key \in DOMAIN Overlay(x)
            THEN C18_Kept(Overlay(x)[key], txns'[activeTransactions'[x]][key])
            ELSE C18_Created(txns'[activeTransactions'[x]][key], data, key)

C18_PutTxn(p) ==
    LET u == txns[th[p].transaction]
        key == th[p].key
    IN (/\ th[p].op = "PutTxn" /\ th[p].pc = "resume" /\ th[p].err = Nil
        /\ key \in DOMAIN u
        /\ th[p].xid \in DOMAIN activeTransactions
        /\ activeTransactions[th[p].xid] = th[p].transaction)
         => /\ th[p].xid \in DOMAIN activeTransactions'
            /\ txns'[activeTransactions'[th[p].xid]] =
                  [u EXCEPT ![key].newValue = <<th[p].value>>,
                            ![key].state = IF @ = stateDeleted
                                           THEN stateUpdated ELSE @]

C18_PriorValueKept ==
    [][C18_Frame /\ \A p \in Procs : Steps(p) => C18_PutTxn(p)]_vars

\* C18's case: a PutTxn has returned; the record of its key is Updated, and
\* the record's priorValue is not the value the store holds now.
C18_Witness ==
    \E p \in Procs :
        /\ th[p].pc = "ret" /\ th[p].op = "PutTxn" /\ th[p].err = Nil
        /\ th[p].xid \in DOMAIN activeTransactions
        /\ th[p].key \in DOMAIN Overlay(th[p].xid)
        /\ th[p].key \in DOMAIN data
        /\ Overlay(th[p].xid)[th[p].key].state = stateUpdated
        /\ PriorValue(Overlay(th[p].xid)[th[p].key])
             # <<data[th[p].key].Value>>

(* C19: added-then-deleted collapses.  DeleteTxn(k, x) on an Added record of
   k removes the record and returns no error, the store as it was.  With no
   record of k, GetTxn(k, x) reads the store, the validation of a commit of
   x looks at the keys of the overlay alone, and its application leaves k
   as the store holds it. *)
C19_Step(p) ==
    LET u == txns[th[p].transaction]
        key == th[p].key
        attached == /\ th[p].xid \in DOMAIN activeTransactions
                    /\ activeTransactions[th[p].xid] = th[p].transaction
    IN /\ (/\ th[p].op = "DeleteTxn" /\ th[p].pc = "resume"
           /\ th[p].err = Nil /\ key \in DOMAIN u
           /\ u[key].state = stateAdded)
            => /\ th'[p].pc = "ret" /\ th'[p].err = Nil
               /\ data' = data
               /\ attached =>
                    /\ th[p].xid \in DOMAIN activeTransactions'
                    /\ txns'[activeTransactions'[th[p].xid]]
                          = MapDelete(u, key)
       /\ (/\ th[p].op = "GetTxn" /\ th[p].pc = "resume"
           /\ th[p].err = Nil /\ key \notin DOMAIN u)
            => th'[p].pc = "TxnGet_Lock"
       /\ th[p].pc = "TxnGet_Body" =>
            th'[p].pc = "ret" /\ Result(p)' = Read(data, key)
       /\ th[p].pc = "Commit_Validate" =>
            (th'[p].pc = "Commit_Apply"
               <=> \A k \in DOMAIN u : ~Discrepancy(u[k], data, k))
       /\ th[p].pc = "Commit_Apply" =>
            \A k \in ((DOMAIN data) \cup (DOMAIN data')) \ DOMAIN u :
                Read(data', k) = Read(data, k)

C19_AddedThenDeleted == [][\A p \in Procs : Steps(p) => C19_Step(p)]_vars

\* C19's case: a DeleteTxn has returned no error for a key that neither the
\* store nor the overlay holds: the record it found was Added, and is gone.
C19_Witness ==
    \E p \in Procs :
        /\ th[p].pc = "ret" /\ th[p].op = "DeleteTxn" /\ th[p].err = Nil
        /\ th[p].xid \in DOMAIN activeTransactions
        /\ th[p].key \notin DOMAIN Overlay(th[p].xid)
        /\ th[p].key \notin DOMAIN data

(* C20: the overlay of an active transaction never holds a record with no
   net staged effect: no Deleted record whose priorValue is absent, and no
   Updated record whose newValue is its priorValue. *)
C20_NetEffect ==
    \A x \in DOMAIN activeTransactions :
        \A key \in DOMAIN Overlay(x) :
            LET uEntry == Overlay(x)[key]
            IN /\ uEntry.state = stateDeleted => uEntry.oldValue # <<>>
               /\ uEntry.state = stateUpdated =>
                    uEntry.newValue # PriorValue(uEntry)

(* C21: the registry is guarded by the registry lock.  No two threads are
   at an access of the map of active transactions at once: no thread is
   about to remove an identifier while another thread is about to look one
   up or to install one. *)
C21_RegistryGuarded ==
    \A p, q \in Procs :
        (p # q /\ th[p].pc = "Deferred_Delete") => ~RegistryAccess(q)

(* C22: an active transaction is removed from the registry only by the
   terminal call that resolved it.  The deferred removal of a call that
   returns TransactionNotFound removes no transaction, and the deferred
   removal of a call that returns no error removes a transaction that a
   terminal call has resolved, never one installed since. *)
C22_Step(p) ==
    (th[p].pc = "Deferred_Delete" /\ th[p].xid \in DOMAIN activeTransactions)
        => /\ th[p].err # ErrTransactionNotFound
           /\ th[p].err = Nil =>
                hist[activeTransactions[th[p].xid]].ended >= 1

C22_OwnRemoval == [][\A p \in Procs : Steps(p) => C22_Step(p)]_vars

(* C23: no deadlock.  A thread that holds the store lock never waits for the
   registry lock; while calls are running, one of them is not blocked on a
   lock; and under fair scheduling every call returns, both locks
   released. *)
HoldsMu(p) == mu.w = p \/ p \in mu.r

C23_LockOrder == \A p \in Procs : HoldsMu(p) => th[p].pc # "tMu_Lock"

Running(p) == th[p].pc \notin {"idle", "ret", "fatal"}

Blocked(p) ==
    \/ MuLockNext(th[p].pc) # "" /\ ~MuFree
    \/ th[p].pc = "Get_RLock" /\ mu.w # 0
    \/ th[p].pc = "tMu_Lock" /\ tMu # 0

C23_NotAllBlocked ==
    (\E p \in Procs : Running(p))
        => \E p \in Procs : Running(p) /\ ~Blocked(p)

C23_Returns ==
    \A p \in Procs :
        (th[p].pc \notin {"idle", "ret"})
            ~> (th[p].pc = "ret" /\ ~HoldsMu(p) /\ tMu # p)

====
